---- MODULE Spec2Model ----
(***************************************************************************)
(* Model of cap, a configurable HTTP stub server.                          *)
(*                                                                         *)
(*   Spec       the orchestrator (main), the ConfigFileLoader and the      *)
(*              ProcessesController with its listener processes, against  *)
(*              an environment that rewrites the configuration file,       *)
(*              lets time pass, interrupts main and lets processes exit.   *)
(*   SpecServe  one generation of listeners built from a validated Config  *)
(*              (create_server_routes, create_processes) answering         *)
(*              inbound requests (request_processor, is_request_fit,       *)
(*              exception_handler, request_logging, log_request,           *)
(*              request_response_function).                                *)
(*   SpecLog    the same listeners under configurations that set the       *)
(*              logging policy globally and per response, against requests *)
(*              with content types and bodies and a file system that can   *)
(*              refuse a write.                                            *)
(*   SpecSsl    the orchestrator of Spec, started on configurations whose  *)
(*              server has the scheme https or an ssl_config.              *)
(*   SpecRender one listener with a delayed response and a response whose  *)
(*              body is read from a file, against time, requests that      *)
(*              arrive while a handler sleeps, and a body file that is     *)
(*              rewritten or removed.                                      *)
(*                                                                         *)
(* Python's None is the empty sequence <<>>, a present Optional value v is *)
(* <<v>>, and a dict is the set of its <<key, value>> items.               *)
(***************************************************************************)
EXTENDS Integers, Sequences, FiniteSets, TLC

VARIABLES
    pc,          \* main: position in the orchestrator
    exc,         \* main: the exception that ended the try block, or "none"
    config,      \* main: local `config` (a file content that parsed, or "None")
    log,         \* records emitted on the application logger by main
    file,        \* environment: bytes of the configuration file on disk
    now,         \* environment: datetime.now()
    writes,      \* environment: number of rewrites of the file so far
    loader,      \* ConfigFileLoader fields
    procs,       \* every ServerProcess constructed so far
    controller,  \* ProcessesController: created flag and its processes list
    detected,    \* history: times do_load raised the dirty flag
    reloads,     \* history: times main consumed the dirty flag
    listeners,   \* serving: per server, the wired rule list and default
    rq,          \* serving: the inbound request last handled, or <<>>
    selected,    \* serving: the rule chosen for rq, "NoRoute", or "none"
    response,    \* serving: the response rendered for rq, or <<>>
    logged,      \* serving: the result of log_request for rq
    files,       \* serving: files on disk, as <<path, content>>
    sleeping     \* serving: handlers suspended in asyncio.sleep

vars == <<pc, exc, config, log, file, now, writes, loader, procs, controller,
          detected, reloads, listeners, rq, selected, response, logged, files,
          sleeping>>

mainVars == <<pc, exc, config, log, file, now, writes, loader, procs,
              controller, detected, reloads>>

serveVars == <<listeners, rq, selected, response, logged, files, sleeping>>

(***************************************************************************)
(* Bounds of the model.                                                    *)
(***************************************************************************)
MaxTime == 7
MaxWrites == 2

(***************************************************************************)
(* Program constants.                                                      *)
(***************************************************************************)
ReadInterval == 3

None == <<>>
Some(v) == <<v>>
IsNone(o) == o = <<>>
Val(o) == o[1]

Range(s) == {s[i] : i \in 1..Len(s)}

(***************************************************************************)
(* Configuration files.  A file content is named by a string; FileTree is  *)
(* the tree yaml.safe_load decodes it to.  A base_url is kept as the       *)
(* groups of get_base_url_pattern: schema (group 2), host (group 3), port  *)
(* (group 5) and mapping (group 6).                                        *)
(***************************************************************************)
Url(schema, host, port, mapping) ==
    [schema |-> schema, host |-> host, port |-> port, mapping |-> mapping]

Server(url, ids, default) ==
    [alias |-> None, base_url |-> url, requests_ids |-> ids,
     default_response_id |-> default, ssl_config |-> None]

Rule(method, mapping, parameters, body, response_id) ==
    [method |-> method, mapping |-> mapping, parameters |-> parameters,
     body |-> body, response_id |-> response_id]

\* HttpBody(data=...) and HttpBody(file=...), whose data is left b"".
Body(data) == [file |-> None, data |-> data, data_encoding |-> "utf-8"]
BodyFile(path) == [file |-> Some(path), data |-> "", data_encoding |-> "utf-8"]

\* RequestLogConfig(): every field None.
RequestLogConfig ==
    [headers_enabled |-> None, body_enabled |-> None, body_as_file |-> None,
     body_files_folder |-> None, body_type |-> None, body_encoding |-> None,
     log_file |-> None, log_console |-> None]

\* DefaultRequestLogConfig(), the global policy of a file that gives none.
DefaultRequestLogConfig ==
    [RequestLogConfig EXCEPT !.headers_enabled = Some(TRUE),
                             !.body_enabled = Some(TRUE),
                             !.body_as_file = Some(FALSE),
                             !.body_type = Some("auto"),
                             !.body_encoding = Some("utf-8"),
                             !.log_console = Some(TRUE)]

Resp(status, headers, data) ==
    [status |-> status, headers |-> headers, body |-> Body(data),
     seconds_delay |-> None, request_log_config |-> RequestLogConfig]

ApiUrl == Url(Some("http"), "0.0.0.0", Some(8080), "/api")
RootUrl == Url(Some("http"), "0.0.0.0", Some(8081), "")
PortlessUrl == Url(Some("http"), "localhost", None, "/api")

BaseRequests ==
    [r1 |-> Rule("GET", "/ping", None, None, "pong"),
     r2 |-> Rule("GET", "/ping", None, None, "pong2"),
     rp |-> Rule("GET", "/q", Some({<<"a", "1">>}), None, "par"),
     rb |-> Rule("POST", "/b", None, Some(Body("hello")), "bod")]

BaseResponses ==
    [default |-> Resp(404, {}, "nf"),
     pong |-> Resp(200, {<<"X-Rule", "r1">>}, "pong"),
     pong2 |-> Resp(200, {<<"X-Rule", "r2">>}, "pong2"),
     par |-> Resp(200, {<<"Content-Length", "99">>}, "par"),
     bod |-> Resp(201, {}, "ok")]

PingTree ==
    [servers |-> <<Server(ApiUrl, <<"r1", "r2", "rp", "rb">>, "default")>>,
     requests |-> BaseRequests,
     responses |-> BaseResponses,
     request_log_config |-> DefaultRequestLogConfig]

TwoTree ==
    [servers |-> <<Server(ApiUrl, <<"r1", "rb">>, "default"),
                   Server(RootUrl, <<"rp", "r1">>, "bod")>>,
     requests |-> BaseRequests,
     responses |-> BaseResponses,
     request_log_config |-> DefaultRequestLogConfig]

\* Two servers with one identity (host, port and base path).
SharedTree ==
    [servers |-> <<Server(ApiUrl, <<"r1">>, "default"),
                   Server(ApiUrl, <<"rp">>, "par")>>,
     requests |-> BaseRequests,
     responses |-> BaseResponses,
     request_log_config |-> DefaultRequestLogConfig]

\* A global policy that logs to a file and captures bodies in files.
FileLogConfig ==
    [headers_enabled |-> Some(FALSE), body_enabled |-> Some(TRUE),
     body_as_file |-> Some(TRUE), body_files_folder |-> Some("/var"),
     body_type |-> Some("bytes"), body_encoding |-> Some("latin-1"),
     log_file |-> Some("req.log"), log_console |-> None]

\* Responses with a request_log_config of their own: "default" sets nothing,
\* "pong" logs to a file and captures the body in a file, "pong2" turns
\* file capture off and asks for bytes read as UTF-8, "bod" turns the
\* console off and captures under /cap.  Their headers give the content
\* length themselves, in lower case.
LogResponses ==
    [BaseResponses EXCEPT
        !.default.headers = {<<"content-length", "2">>},
        !.pong.headers = {<<"content-length", "4">>},
        !.pong2.headers = {<<"content-length", "5">>},
        !.bod.headers = {<<"content-length", "2">>},
        !.pong.request_log_config =
            [RequestLogConfig EXCEPT !.log_file = Some("req.log"),
                                     !.log_console = Some(FALSE),
                                     !.headers_enabled = Some(FALSE),
                                     !.body_enabled = Some(TRUE),
                                     !.body_as_file = Some(TRUE)],
        !.pong2.request_log_config =
            [RequestLogConfig EXCEPT !.log_console = Some(TRUE),
                                     !.headers_enabled = Some(TRUE),
                                     !.body_as_file = Some(FALSE),
                                     !.body_type = Some("bytes"),
                                     !.body_encoding = Some("utf-8")],
        !.bod.request_log_config =
            [RequestLogConfig EXCEPT !.log_console = Some(FALSE),
                                     !.body_as_file = Some(TRUE),
                                     !.body_files_folder = Some("/cap")]]

LogTree ==
    [servers |-> <<Server(ApiUrl, <<"r1">>, "default"),
                   [Server(RootUrl, <<"r2">>, "bod") EXCEPT !.alias = Some("root")]>>,
     requests |-> BaseRequests,
     responses |-> LogResponses,
     request_log_config |-> DefaultRequestLogConfig]

\* SslConfig with keyfile_password left out.
SslConfig(keyfile, certfile, ca_certs) ==
    [keyfile |-> keyfile, certfile |-> certfile, keyfile_password |-> None,
     ca_certs |-> ca_certs]

HttpsUrl == Url(Some("https"), "0.0.0.0", Some(8443), "/api")

\* The configuration "ping" with its one server given this URL and this
\* ssl_config.
SslTree(url, ssl_config) ==
    [PingTree EXCEPT !.servers =
        <<[Server(url, <<"r1", "r2", "rp", "rb">>, "default")
              EXCEPT !.ssl_config = ssl_config]>>]

\* The file a response can take its body from.
BodyPath == "/srv/body"

\* A server with a delayed response, a response whose body is read from
\* BodyPath, and an immediate default.
RenderTree ==
    [servers |-> <<Server(ApiUrl, <<"slow", "filed">>, "default")>>,
     requests |-> [slow |-> Rule("GET", "/slow", None, None, "slow"),
                   filed |-> Rule("GET", "/file", None, None, "filed")],
     responses |->
        [default |-> Resp(404, {}, "nf"),
         slow |-> [Resp(200, {}, "late") EXCEPT !.seconds_delay = Some(2)],
         filed |-> [Resp(200, {<<"X-Rule", "filed">>}, "")
                      EXCEPT !.body = BodyFile(BodyPath)]],
     request_log_config |-> DefaultRequestLogConfig]

\* A global policy whose log_file is the empty string and which sets no
\* console logging; bodies would go to files.
EmptyLogConfig ==
    [RequestLogConfig EXCEPT !.log_file = Some(""),
                             !.body_enabled = Some(TRUE),
                             !.body_as_file = Some(TRUE)]

FileTree(c) ==
    CASE c = "ping" -> PingTree
      [] c = "two" -> TwoTree
      [] c = "shared" -> SharedTree
      [] c = "log" -> LogTree
      [] c = "logFile" -> [LogTree EXCEPT !.request_log_config = FileLogConfig]
      [] c = "render" -> RenderTree
      [] c = "logEmpty" -> [LogTree EXCEPT !.request_log_config = EmptyLogConfig]
      [] c = "httpsCert" ->
            SslTree(HttpsUrl, Some(SslConfig(Some("key.pem"), Some("cert.pem"), None)))
      [] c = "httpsCa" ->
            SslTree(HttpsUrl, Some(SslConfig(None, None, Some("ca.pem"))))
      [] c = "httpsNoSsl" -> SslTree(HttpsUrl, None)
      [] c = "httpsKeyOnly" ->
            SslTree(HttpsUrl, Some(SslConfig(Some("key.pem"), None, None)))
      [] c = "httpCert" ->
            SslTree(ApiUrl, Some(SslConfig(Some("key.pem"), Some("cert.pem"), None)))
      [] c = "httpKeyOnly" ->
            SslTree(ApiUrl, Some(SslConfig(Some("key.pem"), None, None)))
      [] c = "httpEmptySsl" ->
            SslTree(ApiUrl, Some(SslConfig(None, None, None)))
      [] c = "noPort" ->
            [PingTree EXCEPT !.servers =
                <<Server(PortlessUrl, <<"r1">>, "default")>>]
      [] c = "noReq" ->
            [PingTree EXCEPT !.servers =
                <<Server(ApiUrl, <<"r1", "rx">>, "default")>>]
      [] c = "noResp" ->
            [PingTree EXCEPT !.requests.r2.response_id = "gone"]
      [] c = "noDefault" ->
            [PingTree EXCEPT !.servers =
                <<Server(ApiUrl, <<"r1">>, "gone")>>]

Contents ==
    {"ping", "two", "shared", "noPort", "noReq", "noResp", "noDefault", "badYaml"}

(***************************************************************************)
(* main.parse_from_yaml: a decoding failure is raised as IOError.          *)
(***************************************************************************)
parse_from_yaml(c) ==
    IF c = "badYaml"
    THEN [raised |-> "IOError", value |-> None]
    ELSE [raised |-> "none", value |-> Some(FileTree(c))]

(***************************************************************************)
(* model.config_file.check_base_url on the matched groups.                 *)
(***************************************************************************)
check_base_url_raises(url) ==
    \/ /\ ~IsNone(url.schema)
       /\ Val(url.schema) \notin {"http", "https"}
    \/ /\ ~IsNone(url.port)
       /\ ~(0 <= Val(url.port) /\ Val(url.port) <= 65535)

(***************************************************************************)
(* Config.parse_obj: field constraints, and requests_ids declared as       *)
(* Set[str], so the parsed ServerConfig holds the set of the listed ids.   *)
(***************************************************************************)
Config_parse_obj_raises(tree) ==
    \/ Len(tree.servers) < 1
    \/ \E i \in 1..Len(tree.servers) : check_base_url_raises(tree.servers[i].base_url)
    \/ \E id \in DOMAIN tree.responses :
          ~(100 <= tree.responses[id].status /\ tree.responses[id].status <= 599)

Config_parse_obj(tree) ==
    [servers |-> [i \in 1..Len(tree.servers) |->
                    [tree.servers[i] EXCEPT
                        !.requests_ids = Range(tree.servers[i].requests_ids)]],
     requests |-> tree.requests,
     responses |-> tree.responses,
     request_log_config |-> tree.request_log_config]

(***************************************************************************)
(* ServerConfig properties.                                                *)
(***************************************************************************)
ServerConfig_schema(server) ==
    IF IsNone(server.base_url.schema) THEN "http" ELSE Val(server.base_url.schema)

ServerConfig_port(server) ==
    IF IsNone(server.base_url.port) THEN 80 ELSE Val(server.base_url.port)

ServerConfig_base_mapping(server) == server.base_url.mapping

\* identity concatenates group 3, group 4 and group 6; group 4 is None when
\* the port is omitted and the concatenation then raises TypeError.
ServerConfig_identity_raises(server) == IsNone(server.base_url.port)

ServerConfig_identity(server) ==
    <<server.base_url.host, ":", Val(server.base_url.port), server.base_url.mapping>>

SslConfig_validate_config_raises(ssl) ==
    IsNone(ssl.certfile) /\ IsNone(ssl.ca_certs)

validate_protocol_configured_raises(server) ==
    IF ServerConfig_schema(server) = "https" /\ IsNone(server.ssl_config)
    THEN TRUE
    ELSE IF ~IsNone(server.ssl_config)
         THEN SslConfig_validate_config_raises(Val(server.ssl_config))
         ELSE FALSE

\* Variant: the servers' default_response_id values are not collected.
validate_request_response_ids_no_defaults(cfg) ==
    LET server_requests ==
            UNION {cfg.servers[i].requests_ids : i \in DOMAIN cfg.servers}
        request_responses ==
            {cfg.requests[id].response_id : id \in DOMAIN cfg.requests}
    IN  \/ server_requests \ DOMAIN cfg.requests # {}
        \/ request_responses \ DOMAIN cfg.responses # {}

(***************************************************************************)
(* Config.validate_request_response_ids.                                   *)
(***************************************************************************)
validate_request_response_ids_raises(cfg) ==
    LET server_requests ==
            UNION {cfg.servers[i].requests_ids : i \in DOMAIN cfg.servers}
        request_responses ==
            {cfg.servers[i].default_response_id : i \in DOMAIN cfg.servers}
            \cup {cfg.requests[id].response_id : id \in DOMAIN cfg.requests}
        requests == DOMAIN cfg.requests
        responses == DOMAIN cfg.responses
        not_described_requests == server_requests \ requests
        not_described_responses == request_responses \ responses
    IN  \/ Cardinality(not_described_requests) # 0
        \/ Cardinality(not_described_responses) # 0

Config_validate_raises(cfg) ==
    \/ \E i \in DOMAIN cfg.servers : validate_protocol_configured_raises(cfg.servers[i])
    \/ validate_request_response_ids_raises(cfg)

(***************************************************************************)
(* model.config_file.parse_config applied to parse_from_yaml's result:     *)
(* every failure leaves as IOError.                                        *)
(***************************************************************************)
parse_config_raises(c) ==
    LET y == parse_from_yaml(c)
    IN  \/ y.raised # "none"
        \/ Config_parse_obj_raises(Val(y.value))
        \/ Config_validate_raises(Config_parse_obj(Val(y.value)))

\* The Config object main holds after parsing content c.
Cfg(c) == Config_parse_obj(FileTree(c))

(***************************************************************************)
(* core.config_loader.ConfigFileLoader.                                    *)
(***************************************************************************)
LoaderInit ==
    [last_read |-> None, cached_value |-> None, file_hash |-> None,
     is_changed |-> FALSE]

\* hashlib.sha256(value).hexdigest(): distinct contents, distinct digests.
calculate_hash(value) == <<"sha256", value>>

\* _read_file stamps __last_read before it opens the file; `ok` is whether
\* open/read succeeded.  The result carries the loader and the bytes read.
read_file(l, t, f, ok) ==
    [loader |-> [l EXCEPT !.last_read = Some(t)],
     raised |-> IF ok THEN "none" ELSE "IOError",
     value |-> IF ok THEN Some(f) ELSE None]

\* Variant: the first read is cached without its digest being stored.
get_file_value_unhashed(l, t, f, ok) ==
    IF IsNone(l.cached_value)
    THEN LET r == read_file(l, t, f, ok)
         IN  IF r.raised # "none"
             THEN r
             ELSE [r EXCEPT !.loader.cached_value = r.value]
    ELSE [loader |-> l, raised |-> "none", value |-> l.cached_value]

\* get_file_value: the cached bytes, read and hashed on first use.
get_file_value(l, t, f, ok) ==
    IF IsNone(l.cached_value)
    THEN LET r == read_file(l, t, f, ok)
         IN  IF r.raised # "none"
             THEN r
             ELSE [r EXCEPT !.loader.cached_value = r.value,
                            !.loader.file_hash = Some(calculate_hash(Val(r.value)))]
    ELSE [loader |-> l, raised |-> "none", value |-> l.cached_value]

\* Variant: the flag is left as it is.
reset_changed_keeps_flag(l) == l

reset_changed(l) == [l EXCEPT !.is_changed = FALSE]

\* (not is_changed and last_read is None) or last_read + interval <= now
do_load_due(l, t) ==
    \/ ~l.is_changed /\ IsNone(l.last_read)
    \/ Val(l.last_read) + ReadInterval <= t

\* Variant: every successful read raises the flag, whatever the digest.
do_load_always_dirty(l, t, f, ok) ==
    IF do_load_due(l, t)
    THEN LET r == read_file(l, t, f, ok)
         IN  IF r.raised # "none"
             THEN r
             ELSE [r EXCEPT !.loader =
                     [r.loader EXCEPT !.cached_value = r.value,
                                      !.is_changed = TRUE,
                                      !.file_hash = Some(calculate_hash(Val(r.value)))]]
    ELSE [loader |-> l, raised |-> "none", value |-> None]

do_load(l, t, f, ok) ==
    IF do_load_due(l, t)
    THEN LET r == read_file(l, t, f, ok)
         IN  IF r.raised # "none"
             THEN r
             ELSE LET hash_value == Some(calculate_hash(Val(r.value)))
                      l1 == [r.loader EXCEPT !.cached_value = r.value]
                  IN  IF hash_value # l1.file_hash
                      THEN [r EXCEPT !.loader =
                              [l1 EXCEPT !.is_changed = TRUE,
                                         !.file_hash = hash_value]]
                      ELSE [r EXCEPT !.loader = l1]
    ELSE [loader |-> l, raised |-> "none", value |-> None]

(***************************************************************************)
(* core.server_processing: ServerProcess as main sees it, and              *)
(* ProcessesController.  A process is "initial" until start(), "alive"     *)
(* until it exits, "stopped" afterwards; term records that terminate()     *)
(* was called on it.                                                       *)
(***************************************************************************)
ControllerInit == [created |-> FALSE, processes |-> <<>>]

is_alive(ps, i) == ps[i].state = "alive"

\* Variant: running only while every process of the list is alive.
is_running_all(ps, ctrl) ==
    \A k \in 1..Len(ctrl.processes) : is_alive(ps, ctrl.processes[k])

is_running(ps, ctrl) ==
    \E k \in 1..Len(ctrl.processes) : is_alive(ps, ctrl.processes[k])

\* Variant: terminate() is called on every process of the list, alive or not.
terminate_all_every(ps, ctrl) ==
    [i \in 1..Len(ps) |->
        IF i \in Range(ctrl.processes)
        THEN [ps[i] EXCEPT !.term = TRUE]
        ELSE ps[i]]

\* terminate_all: under `if self.is_running`, terminate() on each process of
\* the list that is alive.
terminate_all(ps, ctrl) ==
    IF is_running(ps, ctrl)
    THEN [i \in 1..Len(ps) |->
            IF i \in Range(ctrl.processes) /\ is_alive(ps, i)
            THEN [ps[i] EXCEPT !.term = TRUE]
            ELSE ps[i]]
    ELSE ps

start_all(ps, ctrl) ==
    [i \in 1..Len(ps) |->
        IF i \in Range(ctrl.processes)
        THEN [ps[i] EXCEPT !.state = "alive"]
        ELSE ps[i]]

\* core.process_middleware.get_server_processes: create_server_routes reads
\* every server's identity, create_processes builds one process per server.
get_server_processes_raises(c) ==
    \E i \in DOMAIN Cfg(c).servers : ServerConfig_identity_raises(Cfg(c).servers[i])

NextGen(ps) == IF Len(ps) = 0 THEN 1 ELSE ps[Len(ps)].gen + 1

get_server_processes(ps, c) ==
    [i \in 1..Len(Cfg(c).servers) |->
        [gen |-> NextGen(ps), content |-> c, server |-> i,
         state |-> "initial", term |-> FALSE]]

NewIndices(ps, c) == [i \in 1..Len(Cfg(c).servers) |-> Len(ps) + i]

\* processes setter: terminate_all when running, then replace the list.
set_processes(ps, ctrl) == terminate_all(ps, ctrl)

(***************************************************************************)
(* The orchestrator, main().                                               *)
(***************************************************************************)
TryPcs == {"INIT", "start_initial", "RUNNING", "do_load", "check_changed",
           "RELOADING", "terminate", "wait", "construct", "start"}

\* except Exception as e: logger.critical(...), then the finally block.
Raise(e) ==
    /\ exc' = e
    /\ log' = log \cup {"critical"}
    /\ pc' = "SHUTTING_DOWN"

\* Lines 77-86: load and parse the initial file, build the first listeners.
MainInit ==
    /\ pc = "INIT"
    /\ \E ok \in BOOLEAN :
         LET r == get_file_value(loader, now, file, ok)
         IN  /\ loader' = r.loader
             /\ IF r.raised # "none" \/ parse_config_raises(file)
                THEN /\ Raise("IOError")
                     /\ UNCHANGED <<config, procs, controller>>
                ELSE /\ config' = file
                     /\ IF get_server_processes_raises(file)
                        THEN /\ Raise("TypeError")
                             /\ UNCHANGED <<procs, controller>>
                        ELSE /\ procs' = procs \o get_server_processes(procs, file)
                             /\ controller' = [created |-> TRUE,
                                               processes |-> NewIndices(procs, file)]
                             /\ pc' = "start_initial"
                             /\ UNCHANGED <<exc, log>>
    /\ UNCHANGED <<file, now, writes, detected, reloads>>
    /\ UNCHANGED serveVars

\* Line 88: controller.start_all()
StartInitial ==
    /\ pc = "start_initial"
    /\ procs' = start_all(procs, controller)
    /\ pc' = "RUNNING"
    /\ UNCHANGED <<exc, config, log, file, now, writes, loader, controller,
                   detected, reloads>>
    /\ UNCHANGED serveVars

\* Line 89: while controller.is_running
LoopTest ==
    /\ pc = "RUNNING"
    /\ pc' = IF is_running(procs, controller) THEN "do_load" ELSE "SHUTTING_DOWN"
    /\ UNCHANGED <<exc, config, log, file, now, writes, loader, procs,
                   controller, detected, reloads>>
    /\ UNCHANGED serveVars

\* Line 90: config_loader.do_load()
DoLoad ==
    /\ pc = "do_load"
    /\ \E ok \in BOOLEAN :
         LET r == do_load(loader, now, file, ok)
         IN  /\ loader' = r.loader
             /\ IF r.raised # "none"
                THEN Raise("IOError") /\ UNCHANGED detected
                ELSE /\ pc' = "check_changed"
                     /\ detected' = IF r.loader.file_hash # loader.file_hash
                                    THEN detected + 1 ELSE detected
                     /\ UNCHANGED <<exc, log>>
    /\ UNCHANGED <<config, file, now, writes, procs, controller, reloads>>
    /\ UNCHANGED serveVars

\* Lines 91-96: if config_loader.is_changed: reset_changed(); log
CheckChanged ==
    /\ pc = "check_changed"
    /\ IF loader.is_changed
       THEN /\ loader' = reset_changed(loader)
            /\ log' = log \cup {"info: changes detected"}
            /\ reloads' = reloads + 1
            /\ pc' = "RELOADING"
       ELSE /\ pc' = "RUNNING"
            /\ UNCHANGED <<loader, log, reloads>>
    /\ UNCHANGED <<exc, config, file, now, writes, procs, controller, detected>>
    /\ UNCHANGED serveVars

\* The guard main applies before it replaces the listener set (line 105):
\* `config_loader is not None`, which holds whatever the parse returned.
reload_guard(cfg) == TRUE

\* Lines 98-105: config = None; try parse; except IOError: warning; guard.
ParseReloaded ==
    /\ pc = "RELOADING"
    /\ LET c == Val(get_file_value(loader, now, file, TRUE).value)
       IN  /\ IF parse_config_raises(c)
              THEN /\ config' = "None"
                   /\ log' = log \cup {"warning: config rejected"}
              ELSE /\ config' = c
                   /\ UNCHANGED log
           /\ pc' = IF reload_guard(config') THEN "terminate" ELSE "RUNNING"
    /\ UNCHANGED <<exc, file, now, writes, loader, procs, controller,
                   detected, reloads>>
    /\ UNCHANGED serveVars

\* Line 106: controller.terminate_all()
TerminateOld ==
    /\ pc = "terminate"
    /\ procs' = terminate_all(procs, controller)
    /\ log' = IF is_running(procs, controller)
              THEN log \cup {"info: stopping"} ELSE log
    /\ pc' = "wait"
    /\ UNCHANGED <<exc, config, file, now, writes, loader, controller,
                   detected, reloads>>
    /\ UNCHANGED serveVars

\* Variant: main does not wait for the old listeners to stop.
wait_done_at_once(ps, ctrl) == TRUE

\* Whether the busy-wait of lines 107-108 lets main through.
wait_done(ps, ctrl) == ~is_running(ps, ctrl)

\* Lines 107-108: while controller.is_running: pass
WaitStopped ==
    /\ pc = "wait"
    /\ wait_done(procs, controller)
    /\ pc' = "construct"
    /\ UNCHANGED <<exc, config, log, file, now, writes, loader, procs,
                   controller, detected, reloads>>
    /\ UNCHANGED serveVars

\* Lines 109-113: config.request_log_config raises AttributeError on None;
\* get_server_processes; controller.processes = processes.
Construct ==
    /\ pc = "construct"
    /\ IF config = "None"
       THEN Raise("AttributeError") /\ UNCHANGED <<procs, controller>>
       ELSE IF get_server_processes_raises(config)
       THEN Raise("TypeError") /\ UNCHANGED <<procs, controller>>
       ELSE /\ procs' = set_processes(procs, controller)
                            \o get_server_processes(procs, config)
            /\ controller' = [controller EXCEPT
                                !.processes = NewIndices(procs, config)]
            /\ pc' = "start"
            /\ UNCHANGED <<exc, log>>
    /\ UNCHANGED <<config, file, now, writes, loader, detected, reloads>>
    /\ UNCHANGED serveVars

\* Line 115: controller.start_all()
StartReloaded ==
    /\ pc = "start"
    /\ procs' = start_all(procs, controller)
    /\ pc' = "RUNNING"
    /\ UNCHANGED <<exc, config, log, file, now, writes, loader, controller,
                   detected, reloads>>
    /\ UNCHANGED serveVars

\* Lines 118-119: KeyboardInterrupt anywhere inside the try block.
Interrupt ==
    /\ pc \in TryPcs
    /\ Raise("KeyboardInterrupt")
    /\ UNCHANGED <<config, file, now, writes, loader, procs, controller,
                   detected, reloads>>
    /\ UNCHANGED serveVars

\* Variant: the finally block leaves the listeners alone.
finally_block_skipped(ps, ctrl) == ps

\* if controller is not None: controller.terminate_all()
finally_block(ps, ctrl) ==
    IF ctrl.created THEN terminate_all(ps, ctrl) ELSE ps

\* Lines 122-124: the finally block, after which main returns.
Finally ==
    /\ pc = "SHUTTING_DOWN"
    /\ procs' = finally_block(procs, controller)
    /\ log' = IF controller.created /\ is_running(procs, controller)
              THEN log \cup {"info: stopping"} ELSE log
    /\ pc' = "STOPPED"
    /\ UNCHANGED <<exc, config, file, now, writes, loader, controller,
                   detected, reloads>>
    /\ UNCHANGED serveVars

(***************************************************************************)
(* Environment of the orchestrator.                                        *)
(***************************************************************************)
\* A listener process exits: SIGTERM delivered, or run() returns after a
\* startup failure (bind, TLS material) that its own except clauses caught
\* and logged.  Main sees either through is_alive() alone.
ProcessExit(i) ==
    /\ is_alive(procs, i)
    /\ procs' = [procs EXCEPT ![i].state = "stopped"]
    /\ UNCHANGED <<pc, exc, config, log, file, now, writes, loader, controller,
                   detected, reloads>>
    /\ UNCHANGED serveVars

\* Somebody saves the configuration file (possibly with the same bytes).
WriteFile(c) ==
    /\ writes < MaxWrites
    /\ file' = c
    /\ writes' = writes + 1
    /\ UNCHANGED <<pc, exc, config, log, now, loader, procs, controller,
                   detected, reloads>>
    /\ UNCHANGED serveVars

Tick ==
    /\ now < MaxTime
    /\ now' = now + 1
    /\ UNCHANGED <<pc, exc, config, log, file, writes, loader, procs,
                   controller, detected, reloads>>
    /\ UNCHANGED serveVars

\* What log_request has done when no request is in hand.
NoLog ==
    [logger |-> None, io |-> [file_ok |-> TRUE, sink_ok |-> TRUE],
     records |-> {}, written |-> {}, bound |-> {},
     policy |-> RequestLogConfig, body_type |-> None, body_read |-> FALSE,
     calls |-> 0, error |-> FALSE, raised |-> "none"]

ServeIdle ==
    /\ listeners = <<>>
    /\ rq = None
    /\ selected = "none"
    /\ response = None
    /\ logged = NoLog
    /\ files = {}
    /\ sleeping = {}

Init ==
    /\ pc = "INIT"
    /\ exc = "none"
    /\ config = "None"
    /\ log = {}
    /\ file \in Contents
    /\ now = 0
    /\ writes = 0
    /\ loader = LoaderInit
    /\ procs = <<>>
    /\ controller = ControllerInit
    /\ detected = 0
    /\ reloads = 0
    /\ ServeIdle

Next ==
    \/ MainInit
    \/ StartInitial
    \/ LoopTest
    \/ DoLoad
    \/ CheckChanged
    \/ ParseReloaded
    \/ TerminateOld
    \/ WaitStopped
    \/ Construct
    \/ StartReloaded
    \/ Interrupt
    \/ Finally
    \/ \E i \in 1..Len(procs) : ProcessExit(i)
    \/ \E c \in Contents : WriteFile(c)
    \/ Tick

Spec == Init /\ [][Next]_vars

(***************************************************************************)
(* The orchestrator started on a configuration file whose server has an    *)
(* ssl_config or the scheme https.                                         *)
(***************************************************************************)
SslContents ==
    {"httpsCert", "httpsCa", "httpsNoSsl", "httpsKeyOnly",
     "httpCert", "httpKeyOnly", "httpEmptySsl"}

InitSsl ==
    /\ pc = "INIT"
    /\ exc = "none"
    /\ config = "None"
    /\ log = {}
    /\ file \in SslContents
    /\ now = 0
    /\ writes = 0
    /\ loader = LoaderInit
    /\ procs = <<>>
    /\ controller = ControllerInit
    /\ detected = 0
    /\ reloads = 0
    /\ ServeIdle

SpecSsl == InitSsl /\ [][Next]_vars

(***************************************************************************)
(* Serving.  An inbound request is its method, the path of its scope, its  *)
(* query string as the list of key=value items, and its raw body.          *)
(***************************************************************************)
MaxQuery == 2

Methods == {"GET", "POST"}
Paths == {"/api/ping", "/api/other", "/api/q", "/api/b", "/ping"}
QueryKeys == {"a", "b"}
QueryValues == {"1", "2"}
Bodies == {"", "hello"}

Queries == UNION {[1..n -> QueryKeys \X QueryValues] : n \in 0..MaxQuery}

\* Request headers as starlette gives them: keys in lower case.
NoHeaders == {}

Requests ==
    [method : Methods, path : Paths, query : Queries, body : Bodies,
     headers : {NoHeaders}]

\* core.base.request_params_to_dict: the items of starlette's QueryParams,
\* which keep the last value given for a repeated key.
request_params_to_dict(request) ==
    {request.query[k] : k \in {j \in 1..Len(request.query) :
        \A m \in (j+1)..Len(request.query) : request.query[m][1] # request.query[j][1]}}

\* HttpBody.bytes for a literal body: the data encoded with data_encoding.
\* Variant: the bytes are those of `data`, whether or not a file is named.
HttpBody_bytes_data(body) ==
    [type |-> "bytes", value |-> body.data]

\* HttpBody.bytes: the file, opened and read at this access, when one is
\* named, else the data; b"" when anything in that raises.
HttpBody_bytes(body) ==
    IF ~IsNone(body.file)
    THEN IF \E f \in files : f[1] = Val(body.file)
         THEN [type |-> "bytes",
               value |-> (CHOOSE f \in files : f[1] = Val(body.file))[2]]
         ELSE [type |-> "bytes", value |-> ""]
    ELSE [type |-> "bytes", value |-> body.data]

\* `request.body()` as is_request_fit calls it: starlette's Request.body is a
\* coroutine function and the call is not awaited, so the value compared is
\* a coroutine object.
request_body_call(request) == [type |-> "coroutine", value |-> request.body]

\* Variant: the path is compared with the rule's mapping alone.
is_request_fit_without_base(request, request_config, server_config) ==
    /\ request.method = request_config.method
    /\ request.path = request_config.mapping
    /\ \/ IsNone(request_config.parameters)
       \/ Val(request_config.parameters) = request_params_to_dict(request)
    /\ \/ IsNone(request_config.body)
       \/ request_body_call(request) = HttpBody_bytes(Val(request_config.body))

is_request_fit(request, request_config, server_config) ==
    IF request.method # request_config.method
    THEN FALSE
    ELSE IF request.path # ServerConfig_base_mapping(server_config)
                             \o request_config.mapping
    THEN FALSE
    ELSE IF /\ ~IsNone(request_config.parameters)
            /\ Val(request_config.parameters) # request_params_to_dict(request)
    THEN FALSE
    ELSE IF /\ ~IsNone(request_config.body)
            /\ request_body_call(request) # HttpBody_bytes(Val(request_config.body))
    THEN FALSE
    ELSE TRUE

(***************************************************************************)
(* core.logging.requests.RequestLogger, as each listener process holds it  *)
(* after the fork: the counter of body file names, the file loggers        *)
(* configured so far, and log_config, which main sets from the Config      *)
(* before it builds the processes.  captures is the history of the body    *)
(* file paths this process has written.                                    *)
(***************************************************************************)
RequestLogger(log_config) ==
    [request_id |-> 0, loggers |-> {}, log_config |-> log_config, captures |-> {}]

\* Bound on the body file names one listener process creates, and on the
\* body files on disk.
MaxCaptures == 2

\* Bound on the handlers suspended in a delay at one time.
MaxSleeping == 2

\* os.getcwd() of the listener process.
Cwd == "/cwd"

\* datetime.isoformat() of time t.
IsoStr(t) ==
    CASE t = 0 -> "T0" [] t = 1 -> "T1" [] t = 2 -> "T2" [] t = 3 -> "T3"
      [] t = 4 -> "T4" [] t = 5 -> "T5" [] t = 6 -> "T6" [] t = 7 -> "T7"
      [] OTHER -> "T8"

IdStr(n) ==
    CASE n = 0 -> "0" [] n = 1 -> "1" [] n = 2 -> "2" [] n = 3 -> "3"
      [] OTHER -> "4"

\* Variant: the name is built from the time alone.
create_body_file_name_timed(request_id, t) ==
    IsoStr(t) \o "_" \o IdStr(0)

\* _create_body_file_name: the name built from the time and the counter as
\* it stands; the caller's counter then goes up by one.
create_body_file_name(request_id, t) ==
    IsoStr(t) \o "_" \o IdStr(request_id)

\* Variant: the override is looked at only where the global value is None.
effective_global_first(global, override) ==
    IF ~IsNone(global) THEN global ELSE override

\* x = self.log_config.x; if request_log_config.x is not None: x = that
effective(global, override) ==
    IF ~IsNone(override) THEN override ELSE global

\* Variant: a flag counts as on as soon as it is set.
bool_of_set(o) ==
    ~IsNone(o)

\* Truth value of an Optional[bool], as `if log_console:` takes it.
bool_of(o) ==
    ~IsNone(o) /\ Val(o)

\* Truth value of an Optional[str], as `if log_file:` takes it.
str_of(o) == ~IsNone(o) /\ Val(o) # ""

\* bytes.decode(encoding): the one-byte body 0xFF, written "<ff>", is no
\* UTF-8; latin-1 decodes every body.  The result is a str.
bytes_decode(body, encoding) ==
    IF body = "<ff>"
    THEN IF encoding = "latin-1"
         THEN [raised |-> "none", value |-> Some([type |-> "str", value |-> "y-diaeresis"])]
         ELSE [raised |-> "UnicodeDecodeError", value |-> None]
    ELSE [raised |-> "none", value |-> Some([type |-> "str", value |-> body])]

\* bytes.hex()
bytes_hex(body) ==
    [type |-> "str",
     value |-> CASE body = "" -> ""
                 [] body = "hello" -> "68656c6c6f"
                 [] body = "<ff>" -> "ff"]

\* Magic(mime=True).from_buffer(body)
guess_mime_type(body) ==
    CASE body = "" -> "application/x-empty"
      [] body = "hello" -> "text/plain"
      [] OTHER -> "application/octet-stream"

\* The set literal of _mime_type_to_body_type: no comma follows "text/", so
\* the first two literals are one string.
text_substrings ==
    {"text/" \o "application/json", "application/x-empty",
     "application/x-www-form-urlencoded"}

\* `substring in media_type`, for the media types of the model: none of
\* them holds another string of text_substrings than itself.
substring_in(substring, media_type) == substring = media_type

mime_type_to_body_type(media_type) ==
    IF \E substring \in text_substrings : substring_in(substring, media_type)
    THEN "text"
    ELSE "bytes"

\* headers.get("Content-Type") or headers.get("content-type"), None when the
\* header is missing or empty.
content_type_of(request) ==
    IF \E h \in request.headers : h[1] = "content-type" /\ h[2] # ""
    THEN Some((CHOOSE h \in request.headers : h[1] = "content-type")[2])
    ELSE None

\* Lines 139-150: the record before headers and body are added.
message_value(request, server_config) ==
    [server |-> [url |-> <<ServerConfig_schema(server_config), "://",
                           server_config.base_url.host, ":",
                           ServerConfig_port(server_config)>>,
                 alias |-> server_config.alias],
     method |-> request.method,
     mapping |-> request.path,
     parameters |-> request_params_to_dict(request),
     headers |-> None,
     body_file |-> None,
     body |-> None]

\* Variant: the test of line 189 compares body_type with the member TEXT.
body_type_TEXT_compared(body_type) ==
    body_type = Some("text")

\* Line 189, `if body_type.TEXT:`: the attribute TEXT looked up on a member
\* of BodyType(str, Enum) is the member TEXT, the non-empty str "text",
\* whatever member body_type is.
body_type_TEXT(body_type) ==
    TRUE

\* The locals of log_request named after the policy fields, as far as the
\* run assigned them (bound), None for the others.
policy_locals(bound, global, override) ==
    [f \in DOMAIN RequestLogConfig |->
        IF f \in bound THEN effective(global[f], override[f]) ELSE None]

\* The try block of log_request (lines 125-206).  io tells whether the body
\* file can be opened for writing and whether a FileHandler can be opened
\* on the log file.  The result carries the logger afterwards, the body
\* files written, the records emitted per sink, and the exception that
\* ended the block, if one did.
log_request_try(lg, request, response_config, server_config, t, io) ==
    LET request_log_config == response_config.request_log_config
        global == lg.log_config
        log_file == effective(global.log_file, request_log_config.log_file)
        log_console == effective(global.log_console, request_log_config.log_console)
        headers_enabled ==
            effective(global.headers_enabled, request_log_config.headers_enabled)
        body_enabled == effective(global.body_enabled, request_log_config.body_enabled)
        body_as_file == effective(global.body_as_file, request_log_config.body_as_file)
        base_folder ==
            effective(global.body_files_folder, request_log_config.body_files_folder)
        body_type == effective(global.body_type, request_log_config.body_type)
        encoding == effective(global.body_encoding, request_log_config.body_encoding)
        enabled == str_of(log_file) \/ bool_of(log_console)
        with_body == enabled /\ bool_of(body_enabled)
        as_file == with_body /\ bool_of(body_as_file)
        inline == with_body /\ ~bool_of(body_as_file)
        bound ==
            {"log_file", "log_console"}
            \cup (IF enabled THEN {"headers_enabled", "body_enabled"} ELSE {})
            \cup (IF with_body THEN {"body_as_file"} ELSE {})
            \cup (IF as_file THEN {"body_files_folder"} ELSE {})
            \cup (IF inline THEN {"body_type", "body_encoding"} ELSE {})
        m0 == message_value(request, server_config)
        m1 == IF bool_of(headers_enabled)
              THEN [m0 EXCEPT !.headers = Some(request.headers)]
              ELSE m0
        body_bytes == request.body
        body_file == (IF IsNone(base_folder) THEN Cwd ELSE Val(base_folder))
                        \o "/" \o create_body_file_name(lg.request_id, t)
        media_type ==
            IF ~IsNone(content_type_of(request))
            THEN Val(content_type_of(request))
            ELSE guess_mime_type(body_bytes)
        final_body_type ==
            IF ~inline THEN None
            ELSE IF IsNone(body_type) \/ body_type = Some("auto")
            THEN Some(mime_type_to_body_type(media_type))
            ELSE body_type
        as_text == body_type_TEXT(final_body_type)
        decoded == bytes_decode(body_bytes,
                                IF IsNone(encoding) THEN "utf-8" ELSE Val(encoding))
        body_value ==
            IF as_text THEN decoded.value ELSE Some(bytes_hex(body_bytes))
        body_failed ==
            \/ as_file /\ ~io.file_ok
            \/ inline /\ as_text /\ decoded.raised # "none"
        m2 == IF as_file THEN [m1 EXCEPT !.body_file = Some(body_file)]
              ELSE IF inline THEN [m1 EXCEPT !.body = body_value]
              ELSE m1
        lg1 == IF as_file
               THEN [lg EXCEPT !.request_id = @ + 1,
                               !.captures = IF io.file_ok THEN @ \cup {body_file} ELSE @]
               ELSE lg
        message_str == [time |-> t, value |-> m2]
        to_file == enabled /\ ~body_failed /\ str_of(log_file)
        file_failed == to_file /\ Val(log_file) \notin lg.loggers /\ ~io.sink_ok
        lg2 == IF to_file /\ ~file_failed
               THEN [lg1 EXCEPT !.loggers = @ \cup {Val(log_file)}]
               ELSE lg1
        to_console == enabled /\ ~body_failed /\ ~file_failed /\ bool_of(log_console)
    IN  [logger |-> lg2,
         io |-> io,
         records |-> (IF to_file /\ ~file_failed
                      THEN {<<Val(log_file), message_str>>} ELSE {})
                     \cup (IF to_console THEN {<<"console", message_str>>} ELSE {}),
         written |-> IF as_file /\ io.file_ok THEN {<<body_file, body_bytes>>} ELSE {},
         bound |-> bound,
         policy |-> policy_locals(bound, global, request_log_config),
         body_type |-> final_body_type,
         body_read |-> with_body,
         calls |-> 1,
         error |-> FALSE,
         raised |-> IF as_file /\ ~io.file_ok THEN "IOError"
                    ELSE IF body_failed THEN decoded.raised
                    ELSE IF file_failed THEN "OSError"
                    ELSE "none"]

\* Variant: no except clause around the body of log_request.
log_request_uncaught(lg, request, response_config, server_config, t, io) ==
    log_request_try(lg, request, response_config, server_config, t, io)

\* RequestLogger.log_request: the try block, and `except Exception`, which
\* reports on the application logger and raises nothing.
log_request(lg, request, response_config, server_config, t, io) ==
    LET r == log_request_try(lg, request, response_config, server_config, t, io)
    IN  IF r.raised # "none"
        THEN [r EXCEPT !.error = TRUE, !.raised = "none"]
        ELSE r

\* The orders in which iterating a Python set of these ids can yield them.
Orderings(S) == {o \in [1..Cardinality(S) -> S] : Range(o) = S}

IterationOrders(cfg) ==
    {o \in [DOMAIN cfg.servers ->
              UNION {Orderings(cfg.servers[i].requests_ids) : i \in DOMAIN cfg.servers}] :
        \A i \in DOMAIN cfg.servers : o[i] \in Orderings(cfg.servers[i].requests_ids)}

\* The last server of the list with this identity: the one whose entry is
\* left in a dict keyed by identity.
LastWithIdentity(cfg, identity) ==
    CHOOSE i \in DOMAIN cfg.servers :
        /\ ServerConfig_identity(cfg.servers[i]) = identity
        /\ \A j \in DOMAIN cfg.servers :
              ServerConfig_identity(cfg.servers[j]) = identity => j <= i

\* create_server_routes: identity -> route; a route closes over the rule
\* list collected for the identity and over a server_config (kept as its
\* index in config.servers).
create_server_routes(cfg, order, identity) ==
    LET k == LastWithIdentity(cfg, identity)
    IN  [server_requests |-> order[k], server_config |-> k]

\* create_processes: one application per server, with the route found under
\* the server's identity and the server's own default response.  headers is
\* the headers dict of each ResponseConfig in that listener's process, the
\* one part of the Config a request handler writes to.
create_processes(cfg, order) ==
    [i \in DOMAIN cfg.servers |->
        [server |-> i,
         route |-> create_server_routes(cfg, order,
                        ServerConfig_identity(cfg.servers[i])),
         default_response_id |-> cfg.servers[i].default_response_id,
         headers |-> [id \in DOMAIN cfg.responses |-> cfg.responses[id].headers],
         request_logger |-> RequestLogger(cfg.request_log_config)]]

Min(S) == CHOOSE x \in S : \A y \in S : x <= y

\* request_processor: the first rule of server_requests that fits, else
\* HTTPException(400).
request_processor(cfg, listener, request) ==
    LET reqs == listener.route.server_requests
        fits == {k \in 1..Len(reqs) :
                    is_request_fit(request, cfg.requests[reqs[k]],
                                   cfg.servers[listener.route.server_config])}
    IN  IF fits = {} THEN "HTTPException" ELSE reqs[Min(fits)]

\* Variant: a request without route is answered with the response "default".
response_id_for_named_default(cfg, listener, outcome) ==
    IF outcome = "HTTPException"
    THEN "default"
    ELSE cfg.requests[outcome].response_id

\* The id of the response config the request is rendered from: the matched
\* rule's, or through exception_handler the default captured for the server.
response_id_for(cfg, listener, outcome) ==
    IF outcome = "HTTPException"
    THEN listener.default_response_id
    ELSE cfg.requests[outcome].response_id

DecStr(n) ==
    CASE n = 0 -> "0" [] n = 1 -> "1" [] n = 2 -> "2" [] n = 3 -> "3"
      [] n = 4 -> "4" [] n = 5 -> "5" [] n = 6 -> "6" [] n = 7 -> "7"
      [] n = 8 -> "8" [] n = 9 -> "9"

Lower(k) ==
    CASE k = "X-Rule" -> "x-rule"
      [] k = "Content-Length" -> "content-length"
      [] OTHER -> k

\* RawResponse.init_headers: headers["content-length"] = str(len(body)) on
\* the dict it was given, then the lower-cased items.
init_headers(headers, body) ==
    {h \in headers : h[1] # "content-length"}
        \cup {<<"content-length", DecStr(Len(body))>>}

\* raw_headers: one (lower-cased key, value) entry per item of the dict, kept
\* as the bag of the entries since two keys can lower-case to one.
raw_headers(headers) ==
    [e \in {<<Lower(h[1]), h[2]>> : h \in headers} |->
        Cardinality({h \in headers : <<Lower(h[1]), h[2]>> = e})]

\* request_response_function: RawResponse(body.bytes, status, headers), with
\* `headers` the dict the ResponseConfig holds at this moment.
request_response_function(response_config, headers) ==
    LET body == HttpBody_bytes(response_config.body).value
    IN  [status |-> response_config.status,
         headers |-> raw_headers(init_headers(headers, body)),
         body |-> body]

\* What starlette answers when the endpoint raises.
InternalServerError ==
    [status |-> 500, headers |-> raw_headers({}), body |-> "Internal Server Error"]

\* core.decorators.request_logging, wrapper: await log_request, then the
\* wrapped function; an exception of log_request would end the wrapper.
wrapper(lr, result) ==
    IF lr.raised # "none" THEN InternalServerError ELSE result

\* The outcomes the file system can give to this run of log_request: one
\* for the body file where the policy has it opened, one for the log file
\* where a FileHandler is yet to be opened on it.
IoOutcomes(lg, response_config) ==
    LET o == response_config.request_log_config
        g == lg.log_config
        log_file == effective(g.log_file, o.log_file)
        enabled == str_of(log_file) \/ bool_of(effective(g.log_console, o.log_console))
        opens_body == /\ enabled
                      /\ bool_of(effective(g.body_enabled, o.body_enabled))
                      /\ bool_of(effective(g.body_as_file, o.body_as_file))
        opens_log == str_of(log_file) /\ Val(log_file) \notin lg.loggers
    IN  [file_ok : IF opens_body THEN BOOLEAN ELSE {TRUE},
         sink_ok : IF opens_log THEN BOOLEAN ELSE {TRUE}]

\* The server_config the wrapped function is called with: the one the
\* route closed over on a match, the listener's own from exception_handler.
server_config_for(cfg, listener, outcome) ==
    IF outcome = "HTTPException"
    THEN cfg.servers[listener.server]
    ELSE cfg.servers[listener.route.server_config]

\* open(path, "wb") and write: the file holds the bytes written last.
write_files(fs, written) ==
    {f \in fs : \A w \in written : w[1] # f[1]} \cup written

\* Variant: exception_handler calls a function that no logger wraps.
handler_loggers_matched(outcome) ==
    IF outcome = "HTTPException" THEN <<>> ELSE <<"request_logger">>

\* The loggers get_request_function is given, by request_processor on a
\* match and by exception_handler otherwise: the list main built around its
\* one RequestLogger.
handler_loggers(outcome) ==
    <<"request_logger">>

\* core.decorators.request_logging, the loop of the wrapper: log_request is
\* awaited once for each logger of the list.
request_logging(loggers, lg, request, response_config, server_config, t, io) ==
    IF Len(loggers) = 0
    THEN [NoLog EXCEPT !.logger = lg, !.io = io]
    ELSE log_request(lg, request, response_config, server_config, t, io)

Max(S) == CHOOSE x \in S : \A y \in S : y <= x

\* Variant: the delay is a blocking sleep, which holds the listener's event
\* loop until the last sleeping handler is through.
loop_free_at_blocking(sl, i, t) ==
    Max({t} \cup {d.wake : d \in {e \in sl : e.listener = i}})

\* The time from which the event loop of listener i runs the handler of a
\* request that arrives at t: `await asyncio.sleep(seconds_delay)` suspends
\* the sleeping handler alone and gives the loop back, so it is t.
loop_free_at(sl, i, t) ==
    t

\* Listener i takes request r: request_processor or exception_handler
\* picks the response config, the wrapper logs the request and then runs
\* request_response_function, which renders the response at once or, when
\* the response config has seconds_delay, suspends in asyncio.sleep.
HandleRequest(i, r) ==
    /\ rq = None
    /\ listeners[i].request_logger.request_id < MaxCaptures
    /\ Cardinality(files) < MaxCaptures
    /\ LET cfg == Cfg(config)
           l == listeners[i]
           outcome == request_processor(cfg, l, r)
           rid == response_id_for(cfg, l, outcome)
           rc == cfg.responses[rid]
           start == loop_free_at(sleeping, i, now)
           suspends == ~IsNone(rc.seconds_delay) \/ start > now
       IN  /\ suspends => Cardinality(sleeping) < MaxSleeping
           /\ \E io \in IoOutcomes(l.request_logger, rc) :
                 logged' = request_logging(handler_loggers(outcome),
                                           l.request_logger, r, rc,
                                           server_config_for(cfg, l, outcome),
                                           now, io)
           /\ rq' = Some([listener |-> i, request |-> r])
           /\ selected' = IF outcome = "HTTPException" THEN "NoRoute" ELSE outcome
           /\ files' = write_files(files, logged'.written)
           /\ IF suspends /\ logged'.raised = "none"
              THEN /\ response' = None
                   /\ sleeping' = sleeping \cup
                         {[listener |-> i, request |-> r, selected |-> selected',
                           rid |-> rid,
                           wake |-> start + (IF IsNone(rc.seconds_delay) THEN 0
                                             ELSE Val(rc.seconds_delay)),
                           logged |-> logged']}
                   /\ listeners' =
                         [listeners EXCEPT ![i].request_logger = logged'.logger]
              ELSE /\ response' =
                         Some(wrapper(logged',
                                      request_response_function(rc, l.headers[rid])))
                   /\ sleeping' = sleeping
                   /\ listeners' =
                         [listeners EXCEPT
                             ![i].request_logger = logged'.logger,
                             ![i].headers[rid] =
                                 IF logged'.raised # "none" THEN @
                                 ELSE init_headers(@, HttpBody_bytes(rc.body).value)]
    /\ UNCHANGED mainVars

\* The sleep of a suspended handler is over: request_response_function goes
\* on to `return RawResponse(...)`, with the body read now.
Wake(d) ==
    /\ rq = None
    /\ d \in sleeping
    /\ d.wake <= now
    /\ LET rc == Cfg(config).responses[d.rid]
           l == listeners[d.listener]
       IN  /\ rq' = Some([listener |-> d.listener, request |-> d.request])
           /\ selected' = d.selected
           /\ logged' = d.logged
           /\ response' = Some(request_response_function(rc, l.headers[d.rid]))
           /\ listeners' =
                 [listeners EXCEPT
                     ![d.listener].headers[d.rid] =
                         init_headers(@, HttpBody_bytes(rc.body).value)]
    /\ sleeping' = sleeping \ {d}
    /\ UNCHANGED files
    /\ UNCHANGED mainVars

\* The handler of the request in hand has returned its response, or is
\* suspended: the event loop is free for the next event.
Done ==
    /\ rq # None
    /\ rq' = None
    /\ selected' = "none"
    /\ response' = None
    /\ logged' = NoLog
    /\ UNCHANGED <<listeners, files, sleeping>>
    /\ UNCHANGED mainVars

\* Contents from which listeners can be built.
ServeContents ==
    {c \in Contents : ~parse_config_raises(c) /\ ~get_server_processes_raises(c)}

\* The orchestrator after it started the listeners of content c.
MainRunning(c) ==
    LET ctrl == [created |-> TRUE, processes |-> NewIndices(<<>>, c)]
    IN  /\ pc = "RUNNING"
        /\ exc = "none"
        /\ config = c
        /\ log = {}
        /\ file = c
        /\ now = 0
        /\ writes = 0
        /\ loader = get_file_value(LoaderInit, 0, c, TRUE).loader
        /\ procs = start_all(get_server_processes(<<>>, c), ctrl)
        /\ controller = ctrl
        /\ detected = 0
        /\ reloads = 0

InitServe ==
    /\ \E c \in ServeContents :
         /\ MainRunning(c)
         /\ \E order \in IterationOrders(Cfg(c)) :
               listeners = create_processes(Cfg(c), order)
    /\ rq = None
    /\ selected = "none"
    /\ response = None
    /\ logged = NoLog
    /\ files = {}
    /\ sleeping = {}

\* A listener that is not answering takes the next inbound request.
Serve ==
    /\ rq = None
    /\ \E i \in 1..Len(listeners) : \E r \in Requests : HandleRequest(i, r)

NextServe ==
    \/ Serve
    \/ Done

SpecServe == InitServe /\ [][NextServe]_vars

(***************************************************************************)
(* Listeners of the configurations with logging policies, and requests     *)
(* that differ in content type and body.                                   *)
(***************************************************************************)
LogContents == {"log", "logFile", "logEmpty"}

LogBodies == {"", "hello", "<ff>"}

LogHeaders == {NoHeaders, {<<"content-type", "application/json">>}}

\* GET /api/ping fits rule r1 on the first server and no rule on the second,
\* GET /ping fits rule r2 on the second and no rule on the first.
LogRequests ==
    [method : {"GET"}, path : {"/api/ping", "/ping"}, query : {<<>>},
     body : LogBodies, headers : LogHeaders]

InitLog ==
    /\ \E c \in LogContents :
         /\ MainRunning(c)
         /\ \E order \in IterationOrders(Cfg(c)) :
               listeners = create_processes(Cfg(c), order)
    /\ rq = None
    /\ selected = "none"
    /\ response = None
    /\ logged = NoLog
    /\ files = {}
    /\ sleeping = {}

ServeLog ==
    /\ rq = None
    /\ \E i \in 1..Len(listeners) : \E r \in LogRequests : HandleRequest(i, r)

NextLog ==
    \/ ServeLog
    \/ Done

SpecLog == InitLog /\ [][NextLog]_vars

(***************************************************************************)
(* A listener whose responses are delayed or read from a file, against     *)
(* time, requests that arrive while others wait, and a body file that is   *)
(* rewritten or removed.                                                   *)
(***************************************************************************)
BodyContents == {"one", "three"}

RenderRequests ==
    [method : {"GET"}, path : {"/api/slow", "/api/file", "/api/other"},
     query : {<<>>}, body : {""}, headers : {NoHeaders}]

InitRender ==
    /\ MainRunning("render")
    /\ \E order \in IterationOrders(Cfg("render")) :
          listeners = create_processes(Cfg("render"), order)
    /\ rq = None
    /\ selected = "none"
    /\ response = None
    /\ logged = NoLog
    /\ files = {<<BodyPath, "one">>}
    /\ sleeping = {}

ServeRender ==
    /\ rq = None
    /\ \E i \in 1..Len(listeners) : \E r \in RenderRequests : HandleRequest(i, r)

WakeUp ==
    /\ rq = None
    /\ \E d \in sleeping : Wake(d)

\* The environment rewrites the body file, or removes it.
ChangeBodyFile ==
    /\ \E o \in {Some(v) : v \in BodyContents} \cup {None} :
          /\ files' = {f \in files : f[1] # BodyPath}
                          \cup (IF IsNone(o) THEN {} ELSE {<<BodyPath, Val(o)>>})
          /\ files' # files
    /\ UNCHANGED <<listeners, rq, selected, response, logged, sleeping>>
    /\ UNCHANGED mainVars

NextRender ==
    \/ ServeRender
    \/ WakeUp
    \/ Done
    \/ Tick
    \/ ChangeBodyFile

SpecRender == InitRender /\ [][NextRender]_vars

(***************************************************************************)
(* Properties of the orchestrator (checked under Spec).                    *)
(***************************************************************************)
Controlled == Range(controller.processes)

ReloadPcs == {"terminate", "wait", "construct", "start"}

\* C1: when the changed file fails to decode or validate, main logs the
\* failure, stays in RUNNING and keeps polling, and termination is requested
\* for no listener of the current generation.
C1_RejectedReloadKeepsListeners ==
    (reloads > 0 /\ config = "None" /\ exc \in {"none", "AttributeError"}) =>
        /\ "warning: config rejected" \in log
        /\ pc \in {"RUNNING", "do_load", "check_changed", "RELOADING"}
        /\ \A i \in Controlled : ~procs[i].term

\* C2: a listener of a newer generation exists (constructed or started)
\* only when every listener of each older generation has stopped, so that
\* listeners alive together always belong to one generation.
C2_TerminateBeforeStart ==
    \A i, j \in 1..Len(procs) :
        /\ procs[i].gen < procs[j].gen => procs[i].state = "stopped"
        /\ (is_alive(procs, i) /\ is_alive(procs, j)) => procs[i].gen = procs[j].gen

\* A second generation is alive after termination was requested for the first.
C2_Witness ==
    \E i, j \in 1..Len(procs) :
        /\ procs[i].gen = 1 /\ procs[i].term /\ procs[i].state = "stopped"
        /\ procs[j].gen = 2 /\ is_alive(procs, j)

\* Every id a decoded tree refers to is described in its maps.
RefsDescribed(tree) ==
    /\ \A i \in 1..Len(tree.servers) :
          /\ \A k \in 1..Len(tree.servers[i].requests_ids) :
                tree.servers[i].requests_ids[k] \in DOMAIN tree.requests
          /\ tree.servers[i].default_response_id \in DOMAIN tree.responses
    /\ \A id \in DOMAIN tree.requests :
          tree.requests[id].response_id \in DOMAIN tree.responses

Dangling(c) == c # "badYaml" /\ ~RefsDescribed(FileTree(c))

\* C3: a configuration with a request id or response id that is not
\* described is never the Config main holds and never the source of a
\* listener; on reload it is rejected with a logged error.
C3_DanglingIdsRejected ==
    /\ config # "None" => ~Dangling(config)
    /\ \A i \in 1..Len(procs) : ~Dangling(procs[i].content)
    /\ (pc \in ReloadPcs /\ Dangling(Val(loader.cached_value))) =>
          (config = "None" /\ "warning: config rejected" \in log)

\* parse_config has rejected a reloaded file whose server default is dangling.
C3_Witness ==
    /\ pc = "terminate"
    /\ loader.cached_value = Some("noDefault")
    /\ config = "None"

\* C9: a do_load that reads the content whose digest is stored leaves
\* is_changed false, and main, finding the flag false, starts no reload.
C9_UnchangedContentNeverDirty ==
    [][ /\ ( /\ pc = "do_load" /\ pc' = "check_changed"
             /\ ~loader.is_changed
             /\ loader.file_hash = Some(calculate_hash(file)) )
           => ( /\ ~loader'.is_changed
                /\ loader'.file_hash = loader.file_hash
                /\ detected' = detected )
        /\ (pc = "check_changed" /\ ~loader.is_changed)
           => ( /\ pc' \notin {"RELOADING"} \cup ReloadPcs
                /\ reloads' = reloads
                /\ \A i \in 1..Len(procs) : procs'[i].term = procs[i].term
                /\ Len(procs') = Len(procs) )
      ]_vars

\* The file was saved again with the bytes it had, do_load has read it after
\* the interval, and nothing was detected.
C9_Witness ==
    /\ pc = "check_changed"
    /\ writes > 0
    /\ loader.cached_value = Some(file)
    /\ Val(loader.last_read) >= ReadInterval
    /\ ~loader.is_changed
    /\ detected = 0
    /\ reloads = 0

\* C10: is_changed rises only in a do_load whose read content has a digest
\* other than the stored one; main consumes it in the step that resets it;
\* reload attempts never outnumber the detected changes.
C10_DirtyConsumedOnce ==
    [][ /\ (~loader.is_changed /\ loader'.is_changed)
           => ( /\ pc = "do_load"
                /\ Some(calculate_hash(file)) # loader.file_hash
                /\ detected' = detected + 1 )
        /\ (reloads' # reloads)
           => ( /\ loader.is_changed /\ ~loader'.is_changed
                /\ reloads' = reloads + 1 )
        /\ reloads' <= detected'
        /\ (pc = "check_changed" /\ pc' = "RELOADING") => ~loader'.is_changed
      ]_vars

\* One change was consumed and a later do_load has read the file again
\* without raising the flag.
C10_Witness ==
    /\ pc = "check_changed"
    /\ reloads = 1
    /\ detected = 1
    /\ ~loader.is_changed
    /\ Val(loader.last_read) >= 2 * ReadInterval

\* C11: a failure to read the file while main polls with listeners running
\* is contained: main does not move to SHUTTING_DOWN because of it and
\* termination is requested for no listener of the current generation.
C11_PollingReadFailureContained ==
    (exc = "IOError" /\ controller.created) =>
        /\ pc \notin {"SHUTTING_DOWN", "STOPPED"}
        /\ \A i \in Controlled : ~procs[i].term

\* C12: a do_load whose read fails leaves the loader as it was (digest,
\* cached content, dirty flag, last-read time) and raises IOError.
C12_FailedReadLeavesLoader ==
    [][ (pc = "do_load" /\ exc = "none" /\ pc' = "SHUTTING_DOWN"
            /\ exc' # "KeyboardInterrupt")
        => (exc' = "IOError" /\ loader' = loader)
      ]_vars

\* C13: once the file has changed to a valid configuration, main starts the
\* listener set built from it and returns to RUNNING.  In a finite run: main
\* never leaves its loop holding a configuration it took up on reload, other
\* than by an interrupt or a failed read, without having started listeners
\* built from that configuration.
C13_ValidReloadStartsListeners ==
    ( /\ reloads > 0
      /\ config # "None"
      /\ pc \in {"SHUTTING_DOWN", "STOPPED"}
      /\ exc \notin {"KeyboardInterrupt", "IOError"} )
    => \E i \in 1..Len(procs) :
          /\ procs[i].content = config
          /\ procs[i].gen > 1
          /\ procs[i].state # "initial"

\* C14: when main has left its loop and reached STOPPED, termination has
\* been requested for every listener still alive, and every listener still
\* alive is in the controller's current set.
C14_ExitTerminatesAlive ==
    pc = "STOPPED" =>
        \A i \in 1..Len(procs) :
            is_alive(procs, i) => (procs[i].term /\ i \in Controlled)

\* Main was interrupted while its listeners served; one of them has not yet
\* exited on the termination requested in the finally block.
C14_Witness ==
    /\ pc = "STOPPED"
    /\ exc = "KeyboardInterrupt"
    /\ \E i \in Controlled : is_alive(procs, i) /\ procs[i].term

\* C15: a listener that fails at startup exits by itself: its exit changes
\* no sibling and nothing of main, termination is requested only by main's
\* own terminate_all, and main at the loop test stays in the loop as long as
\* one listener of the controller's set is alive.
C15_FailedListenerLeavesSiblings ==
    [][ /\ \A i \in 1..Len(procs) :
              (is_alive(procs, i) /\ procs'[i].state = "stopped")
              => ( /\ \A j \in 1..Len(procs) : j # i => procs'[j] = procs[j]
                   /\ procs'[i].term = procs[i].term
                   /\ Len(procs') = Len(procs)
                   /\ pc' = pc /\ exc' = exc /\ controller' = controller )
        /\ \A j \in 1..Len(procs) :
              (~procs[j].term /\ procs'[j].term) => pc \in {"terminate", "SHUTTING_DOWN"}
        /\ ( /\ pc = "RUNNING"
             /\ \E i \in Controlled : procs[i].state = "alive"
             /\ exc' # "KeyboardInterrupt" )
           => pc' \in {"RUNNING", "do_load"}
      ]_vars

\* One listener of the generation has exited without being terminated, its
\* sibling is alive and untouched, and main is polling.
C15_Witness ==
    /\ pc = "do_load"
    /\ exc = "none"
    /\ \E i, j \in Controlled :
          /\ procs[i].state = "stopped" /\ ~procs[i].term
          /\ procs[j].state = "alive" /\ ~procs[j].term
          /\ procs[i].gen = procs[j].gen

(***************************************************************************)
(* Properties of request serving (checked under SpecServe).                *)
(***************************************************************************)
Handled == rq # None

\* The request in hand, the listener it reached, and that listener's server
\* and rules as the configuration file declares them.
TheRequest == Val(rq).request
TheServer == FileTree(config).servers[Val(rq).listener]
DeclaredIds == TheServer.requests_ids
DeclaredRule(id) == FileTree(config).requests[id]
DeclaredResponse(id) == FileTree(config).responses[id]

Satisfies(request, id) ==
    is_request_fit(request, DeclaredRule(id), TheServer)

\* The rendered response carries the status, body and headers configured
\* under response id `id`.
RendersResponse(id) ==
    /\ Val(response).status = DeclaredResponse(id).status
    /\ Val(response).body = DeclaredResponse(id).body.data
    /\ \A h \in DeclaredResponse(id).headers :
          <<Lower(h[1]), h[2]>> \in DOMAIN Val(response).headers

\* C4: when two rules of the server are satisfied by the request, the
\* response rendered is that of the rule declared first.
C4_DeclarationOrderWins ==
    Handled =>
        \A k1, k2 \in 1..Len(DeclaredIds) :
            ( /\ k1 < k2
              /\ Satisfies(TheRequest, DeclaredIds[k1])
              /\ Satisfies(TheRequest, DeclaredIds[k2]) )
            => RendersResponse(DeclaredRule(DeclaredIds[k1]).response_id)

\* C5: a rule declaring parameters P, with method and path equal and no
\* body declared, fits exactly the requests whose query parameters contain
\* every item of P.
C5_DeclaredParametersContained ==
    Handled =>
        \A k \in 1..Len(DeclaredIds) :
            LET rule == DeclaredRule(DeclaredIds[k])
            IN  ( /\ ~IsNone(rule.parameters)
                  /\ IsNone(rule.body)
                  /\ TheRequest.method = rule.method
                  /\ TheRequest.path = TheServer.base_url.mapping \o rule.mapping )
                => ( Satisfies(TheRequest, DeclaredIds[k])
                     <=> Val(rule.parameters) \subseteq request_params_to_dict(TheRequest) )

\* C6: a rule declaring a body, with method and path equal and no
\* parameters declared, fits exactly the requests whose raw body equals the
\* declared body.
C6_DeclaredBodyEqual ==
    Handled =>
        \A k \in 1..Len(DeclaredIds) :
            LET rule == DeclaredRule(DeclaredIds[k])
            IN  ( /\ ~IsNone(rule.body)
                  /\ IsNone(rule.parameters)
                  /\ TheRequest.method = rule.method
                  /\ TheRequest.path = TheServer.base_url.mapping \o rule.mapping )
                => ( Satisfies(TheRequest, DeclaredIds[k])
                     <=> TheRequest.body = Val(rule.body).data )

\* C7: the selected rule has the request's method, and the request's path
\* is the server's base path followed by the rule's mapping; on the server
\* with base path /api and the rule GET /ping, GET /api/ping is answered
\* with that rule's response and GET /api/other with no rule's.
C7_MethodAndFullPathEqual ==
    Handled =>
        /\ selected \notin {"none", "NoRoute"} =>
              /\ TheRequest.method = DeclaredRule(selected).method
              /\ TheRequest.path =
                    TheServer.base_url.mapping \o DeclaredRule(selected).mapping
        /\ (config = "two" /\ Val(rq).listener = 1 /\ TheRequest.method = "GET") =>
              /\ TheRequest.path = "/api/ping" =>
                    (selected = "r1" /\ RendersResponse("pong"))
              /\ TheRequest.path = "/api/other" => selected = "NoRoute"
              /\ TheRequest.path = "/ping" => selected = "NoRoute"

\* GET /api/ping was answered by the rule GET /ping of the /api server.
C7_Witness ==
    /\ Handled
    /\ config = "two"
    /\ Val(rq).listener = 1
    /\ TheRequest.method = "GET"
    /\ TheRequest.path = "/api/ping"
    /\ selected = "r1"
    /\ Val(response).body = "pong"

\* The response Starlette gives for the HTTPException of request_processor
\* when no handler is registered for it.
NoRouteError ==
    [status |-> 400,
     body |-> "Unknown request. Will be allocated to default response"]

\* The rules the listener that took the request evaluates.
ListenerRules == listeners[Val(rq).listener].route.server_requests

C16_OneTrueContentLength ==
    Handled =>
        LET hs == Val(response).headers
            own == <<"content-length", DecStr(Len(Val(response).body))>>
        IN  /\ {e \in DOMAIN hs : e[1] = "content-length"} = {own}
            /\ hs[own] = 1

\* C17: handling requests leaves every ResponseConfig's headers map in every
\* listener equal to the map of the Config the listeners were built from.
C17_ConfigNeverMutated ==
    \A i \in 1..Len(listeners) :
        \A id \in DOMAIN listeners[i].headers :
            listeners[i].headers[id] = Cfg(config).responses[id].headers

(***************************************************************************)
(* Properties of request logging (checked under SpecLog).                  *)
(***************************************************************************)
\* The id of the response config the request in hand is rendered from: the
\* selected rule's response, or the default of the listener's server.
RenderedId ==
    IF selected = "NoRoute"
    THEN TheServer.default_response_id
    ELSE DeclaredRule(selected).response_id

\* The global policy and the policy of the response being rendered, as the
\* configuration file gives them, and their field-by-field merge.
GlobalPolicy == FileTree(config).request_log_config
ResponsePolicy == DeclaredResponse(RenderedId).request_log_config
EffectivePolicy ==
    [f \in DOMAIN RequestLogConfig |->
        IF ResponsePolicy[f] # None THEN ResponsePolicy[f] ELSE GlobalPolicy[f]]

\* C18: whether or not log_request failed, it raises nothing and the
\* request is answered with the status, headers and body rendered from its
\* response config.
C18_LoggingFailureContained ==
    Handled =>
        /\ logged.raised = "none"
        /\ response = Some(request_response_function(
                              DeclaredResponse(RenderedId),
                              DeclaredResponse(RenderedId).headers))

\* The body file could not be written, log_request reported the error and
\* emitted nothing, and the request has its response.
C18_Witness ==
    /\ Handled
    /\ logged.error
    /\ ~logged.io.file_ok
    /\ logged.records = {}
    /\ selected = "r1"
    /\ Val(response).status = 200
    /\ Val(response).body = "pong"

\* C19: every policy field log_request reads has the value of the response's
\* request_log_config when that is not None and the global value otherwise;
\* log_file and log_console are always read; and a record goes to the file
\* and to the console, with the headers, as the merged values say.
C19_PolicyMergedFieldByField ==
    Handled =>
        /\ {"log_file", "log_console"} \subseteq logged.bound
        /\ \A f \in logged.bound : logged.policy[f] = EffectivePolicy[f]
        /\ ~logged.error =>
              /\ (\E rec \in logged.records : rec[1] = "console")
                    <=> EffectivePolicy.log_console = Some(TRUE)
              /\ \A name \in {"req.log"} :
                    (\E rec \in logged.records : rec[1] = name)
                        <=> EffectivePolicy.log_file = Some(name)
              /\ \A rec \in logged.records :
                    (rec[2].value.headers # None)
                        <=> EffectivePolicy.headers_enabled = Some(TRUE)

\* The response sets the folder and leaves log_file unset: the body went to
\* the response's folder and the record to the global log file.
C19_Witness ==
    /\ Handled
    /\ ResponsePolicy.body_files_folder = Some("/cap")
    /\ GlobalPolicy.body_files_folder = Some("/var")
    /\ ResponsePolicy.log_file = None
    /\ logged.policy.body_files_folder = Some("/cap")
    /\ logged.policy.log_file = Some("req.log")
    /\ \E rec \in logged.records : rec[1] = "req.log"

\* The paths of the body files on disk.
Paths_of(fs) == {f[1] : f \in fs}

\* C20: with logging on, body logging on, body_as_file true and a writable
\* folder, logging one request writes one new file, under the effective
\* folder (the working directory when none is set), holding the raw body,
\* at a path this process has not written before; the counter goes up; and
\* every record emitted gives that path as body_file and no body.
C20_OneFreshBodyFile ==
    [][ (rq = None /\ rq' # None) =>
        LET i == Val(rq').listener
            before == listeners[i].request_logger
            after == listeners'[i].request_logger
            policy == EffectivePolicy'
            folder == IF policy.body_files_folder = None
                      THEN Cwd ELSE Val(policy.body_files_folder)
        IN  ( /\ policy.log_file \notin {None, Some("")}
                 \/ policy.log_console = Some(TRUE)
              /\ policy.body_enabled = Some(TRUE)
              /\ policy.body_as_file = Some(TRUE)
              /\ logged'.io.file_ok )
            => \E n \in 0..MaxCaptures :
                  LET path == folder \o "/" \o IsoStr(now) \o "_" \o IdStr(n)
                  IN  /\ logged'.written = {<<path, Val(rq').request.body>>}
                      /\ path \notin before.captures
                      /\ path \notin Paths_of(files)
                      /\ files' = files \cup {<<path, Val(rq').request.body>>}
                      /\ after.request_id > before.request_id
                      /\ \A rec \in logged'.records :
                            /\ rec[2].value.body_file = Some(path)
                            /\ rec[2].value.body = None
                      /\ (logged'.io.sink_ok => logged'.records # {})
      ]_vars

\* A listener that had captured a body before has captured "hello" in a
\* second file and emitted the record that names it.
C20_Witness ==
    /\ Handled
    /\ listeners[Val(rq).listener].request_logger.request_id = 2
    /\ Cardinality(listeners[Val(rq).listener].request_logger.captures) = 2
    /\ \E w \in logged.written :
          /\ w[2] = "hello"
          /\ w \in files
          /\ \E rec \in logged.records : rec[2].value.body_file = Some(w[1])

\* The sinks the effective policy turns on.
FileSinkOn == EffectivePolicy.log_file # None /\ EffectivePolicy.log_file # Some("")
ConsoleSinkOn == EffectivePolicy.log_console = Some(TRUE)
BodyToFile ==
    /\ FileSinkOn \/ ConsoleSinkOn
    /\ EffectivePolicy.body_enabled = Some(TRUE)
    /\ EffectivePolicy.body_as_file = Some(TRUE)

\* C21: when the effective policy sends the body to a file and the file
\* cannot be written, the failure is logged and the record of the request
\* still goes to every enabled sink, without a body_file field.
C21_RecordSurvivesBodyFileFailure ==
    (Handled /\ BodyToFile /\ ~logged.io.file_ok) =>
        /\ logged.error
        /\ ConsoleSinkOn => \E rec \in logged.records : rec[1] = "console"
        /\ (FileSinkOn /\ logged.io.sink_ok) =>
              \E rec \in logged.records : rec[1] = Val(EffectivePolicy.log_file)
        /\ \A rec \in logged.records : rec[2].value.body_file = None

\* The body goes into the record itself.
BodyInline ==
    /\ FileSinkOn \/ ConsoleSinkOn
    /\ EffectivePolicy.body_enabled = Some(TRUE)
    /\ EffectivePolicy.body_as_file # Some(TRUE)

\* The media type of the request in hand: its content-type header, or what
\* the body looks like.
MediaType ==
    IF \E h \in TheRequest.headers : h[1] = "content-type"
    THEN (CHOOSE h \in TheRequest.headers : h[1] = "content-type")[2]
    ELSE guess_mime_type(TheRequest.body)

BodyTypeAuto == EffectivePolicy.body_type \in {None, Some("auto")}

\* C22: with the body logged inline and classified as bytes (declared as
\* bytes, whatever the content type says, or left to auto with a media type
\* that is not text), the body field of the record is the hexadecimal
\* rendering of the raw body, not its decoded text.
C22_BytesBodyLoggedAsHex ==
    ( /\ Handled
      /\ BodyInline
      /\ \/ EffectivePolicy.body_type = Some("bytes")
         \/ BodyTypeAuto /\ MediaType = "application/octet-stream" )
    => \A rec \in logged.records :
          rec[2].value.body = Some(bytes_hex(TheRequest.body))

\* C23: with the body logged inline, body_type auto or unset, and the
\* request declaring content-type application/json, the body field of the
\* record is the body decoded as text with the effective encoding, utf-8
\* when none is set, and not the hexadecimal rendering.
C23_JsonBodyLoggedAsText ==
    ( /\ Handled
      /\ BodyInline
      /\ BodyTypeAuto
      /\ <<"content-type", "application/json">> \in TheRequest.headers )
    => \A rec \in logged.records :
          LET encoding == IF EffectivePolicy.body_encoding = None
                          THEN "utf-8" ELSE Val(EffectivePolicy.body_encoding)
          IN  /\ rec[2].value.body = bytes_decode(TheRequest.body, encoding).value
              /\ TheRequest.body = "hello" =>
                    /\ rec[2].value.body = Some([type |-> "str", value |-> "hello"])
                    /\ rec[2].value.body # Some(bytes_hex("hello"))

\* A request with content-type application/json and body "hello" fell to a
\* response that leaves body_type to the global auto, and the console
\* record carries the text hello.
C23_Witness ==
    /\ Handled
    /\ BodyInline
    /\ EffectivePolicy.body_type = Some("auto")
    /\ ResponsePolicy.body_type = None
    /\ <<"content-type", "application/json">> \in TheRequest.headers
    /\ logged.body_type = Some("bytes")
    /\ \E rec \in logged.records :
          /\ rec[1] = "console"
          /\ rec[2].value.body = Some([type |-> "str", value |-> "hello"])

\* C29: when the effective policy turns on neither the log file (unset or
\* empty) nor the console, logging the request does nothing: no record goes
\* to any sink, the body is not read, no body file is written and the
\* capture counter stays, even with body_enabled and body_as_file true.
C29_NoSinkNoWork ==
    [][ (rq = None /\ rq' # None /\ ~FileSinkOn' /\ ~ConsoleSinkOn') =>
        LET i == Val(rq').listener
        IN  /\ logged'.records = {}
            /\ logged'.written = {}
            /\ ~logged'.body_read
            /\ ~logged'.error
            /\ files' = files
            /\ listeners'[i].request_logger = listeners[i].request_logger
      ]_vars

\* Requests were handled with no sink on although the body was to be
\* captured in a file: once with log_file empty, once with log_file unset
\* and the console turned off by the response.
C29_Witness ==
    /\ Handled
    /\ ~FileSinkOn /\ ~ConsoleSinkOn
    /\ EffectivePolicy.body_enabled = Some(TRUE)
    /\ EffectivePolicy.body_as_file = Some(TRUE)
    /\ EffectivePolicy.log_file = Some("")
    /\ logged.records = {}
    /\ files = {}

C29_WitnessUnset ==
    /\ Handled
    /\ ~FileSinkOn /\ ~ConsoleSinkOn
    /\ EffectivePolicy.body_enabled = Some(TRUE)
    /\ EffectivePolicy.body_as_file = Some(TRUE)
    /\ EffectivePolicy.log_file = None
    /\ EffectivePolicy.log_console = Some(FALSE)
    /\ logged.records = {}

(***************************************************************************)
(* Properties of the controller and the loader (checked under Spec).       *)
(***************************************************************************)
\* C28: a call of terminate_all requests termination only of listeners that
\* are alive and changes no listener's state; with no listener alive it
\* changes nothing, logs nothing and raises nothing; and a second call right
\* after it would leave the listeners as the first call left them.
C28_TerminateAllIdempotent ==
    [][ ( \/ pc = "terminate" /\ pc' = "wait"
          \/ pc = "SHUTTING_DOWN" /\ pc' = "STOPPED" /\ controller.created )
        => /\ Len(procs') = Len(procs)
           /\ \A i \in 1..Len(procs) :
                 /\ procs'[i].state = procs[i].state
                 /\ (procs'[i].term /\ ~procs[i].term) => is_alive(procs, i)
                 /\ (is_alive(procs, i) /\ i \in Controlled) => procs'[i].term
           /\ ~is_running(procs, controller) =>
                 /\ procs' = procs
                 /\ log' = log
                 /\ exc' = exc
           /\ terminate_all(procs', controller') = procs'
      ]_vars

\* Main was interrupted before it started the listeners it had built: the
\* finally block called terminate_all and left them as they were.
C28_Witness ==
    /\ pc = "STOPPED"
    /\ exc = "KeyboardInterrupt"
    /\ controller.created
    /\ Controlled # {}
    /\ \A i \in Controlled : procs[i].state = "initial" /\ ~procs[i].term
    /\ "info: stopping" \notin log

\* A reload requested termination of the old listeners and, interrupted
\* while waiting for them, main called terminate_all again on its way out.
C28_WitnessTwice ==
    /\ pc = "STOPPED"
    /\ exc = "KeyboardInterrupt"
    /\ detected > reloads
    /\ \E i \in Controlled : is_alive(procs, i) /\ procs[i].term

\* C30: whenever the loader holds cached content, the stored hash is the
\* digest of that content; a do_load that raises the dirty flag has cached
\* the content it read and stored its digest; nothing touches either before
\* the reload; and the reload parses exactly the cached content.
C30_HashMatchesCache ==
    /\ [](loader.cached_value # None =>
            loader.file_hash = Some(calculate_hash(Val(loader.cached_value))))
    /\ [][ /\ (pc = "do_load" /\ ~loader.is_changed /\ loader'.is_changed) =>
                /\ loader'.cached_value = Some(file)
                /\ loader'.file_hash = Some(calculate_hash(file))
                /\ loader'.file_hash # loader.file_hash
           /\ pc = "check_changed" =>
                /\ loader'.cached_value = loader.cached_value
                /\ loader'.file_hash = loader.file_hash
           /\ (pc = "RELOADING" /\ pc' = "terminate") =>
                /\ \A ok \in BOOLEAN :
                      get_file_value(loader, now, file, ok).value = loader.cached_value
                /\ loader' = loader
                /\ config' = IF parse_config_raises(Val(loader.cached_value))
                             THEN "None" ELSE Val(loader.cached_value)
         ]_vars

\* The file was rewritten after the listeners of the first content started
\* and once more after the poll that raised the flag: the reload has parsed
\* the content the poll cached, not the one now on disk.
C30_Witness ==
    /\ pc = "terminate"
    /\ reloads = 1
    /\ config # "None"
    /\ loader.cached_value = Some(config)
    /\ loader.file_hash = Some(calculate_hash(config))
    /\ file # config

(***************************************************************************)
(* Properties of SSL validation (checked under SpecSsl).                   *)
(***************************************************************************)
\* The content main read at startup, while no poll has seen another one.
StartContent == Val(loader.cached_value)

\* What the specification accepts: every https server has an ssl_config
\* that names a cert file or a CA bundle; an http server passes as it is.
SslAcceptable(c) ==
    \A i \in DOMAIN FileTree(c).servers :
        LET server == FileTree(c).servers[i]
        IN  server.base_url.schema = Some("https") =>
               /\ server.ssl_config # None
               /\ \/ Val(server.ssl_config).certfile # None
                  \/ Val(server.ssl_config).ca_certs # None

\* C24: the configuration main starts on is accepted exactly when each of
\* its https servers has an ssl_config naming a cert file or a CA bundle; an
\* http server is accepted whatever its ssl_config holds.
C24_SslValidatedOnlyForHttps ==
    ( /\ pc # "INIT"
      /\ loader.cached_value # None
      /\ detected = 0
      /\ reloads = 0
      /\ StartContent \in SslContents )
    => (config = StartContent <=> SslAcceptable(StartContent))

(***************************************************************************)
(* Properties of delayed and file-sourced responses (checked under         *)
(* SpecRender).                                                            *)
(***************************************************************************)
\* C25: a handler waiting out its seconds_delay suspends only itself: a
\* request that the listener takes while another sleeps, and whose response
\* has no delay, has its response in the step that takes it, at a time
\* before the delay of the sleeping one is over.
C25_DelaySuspendsOnlyItself ==
    [][ ( /\ rq = None /\ rq' # None
          /\ sleeping \subseteq sleeping'
          /\ DeclaredResponse(RenderedId').seconds_delay = None
          /\ \E d \in sleeping : d.listener = Val(rq').listener /\ now < d.wake )
        => /\ response' # None
           /\ sleeping' = sleeping
           /\ now' = now
           /\ \A d \in sleeping : d.listener = Val(rq').listener => d \in sleeping'
      ]_vars

\* A request for the delayed response sleeps until time 2 or later; at an
\* earlier time a second request, for the default response, has its answer.
C25_Witness ==
    /\ Handled
    /\ selected = "NoRoute"
    /\ response # None
    /\ Val(response).status = 404
    /\ \E d \in sleeping :
          /\ d.listener = Val(rq).listener
          /\ d.selected = "slow"
          /\ now < d.wake

\* What BodyPath holds on disk, b"" standing for a file that cannot be read.
BodyOnDisk ==
    IF \E f \in files : f[1] = BodyPath
    THEN (CHOOSE f \in files : f[1] = BodyPath)[2]
    ELSE ""

\* C26: a response whose body comes from a file carries what the file
\* holds when the response is rendered, whatever earlier responses carried,
\* and the empty body when the file cannot be read; either way it has the
\* configured status and headers, and the content length of the body sent.
C26_FileBodyReadPerRequest ==
    [][ ( /\ rq = None /\ rq' # None /\ response' # None
          /\ DeclaredResponse(RenderedId').body.file = Some(BodyPath) )
        => LET rc == DeclaredResponse(RenderedId')
               hs == Val(response').headers
           IN  /\ Val(response').body = BodyOnDisk
               /\ Val(response').status = rc.status
               /\ \A h \in rc.headers : <<Lower(h[1]), h[2]>> \in DOMAIN hs
               /\ <<"content-length", DecStr(Len(BodyOnDisk))>> \in DOMAIN hs
      ]_vars

\* The file held "one" when the listener started; it was rewritten, and the
\* response carries the new content and its length.
C26_Witness ==
    /\ Handled
    /\ selected = "filed"
    /\ Val(response).status = 200
    /\ Val(response).body = "three"
    /\ <<"content-length", "5">> \in DOMAIN Val(response).headers
    /\ <<"x-rule", "filed">> \in DOMAIN Val(response).headers

\* The file was removed: the response has the configured status and header
\* and an empty body.
C26_WitnessUnreadable ==
    /\ Handled
    /\ selected = "filed"
    /\ files = {}
    /\ Val(response).status = 200
    /\ Val(response).body = ""
    /\ <<"content-length", "0">> \in DOMAIN Val(response).headers
    /\ <<"x-rule", "filed">> \in DOMAIN Val(response).headers

\* C27: for every request, matched or fallen to the default response,
\* log_request has been invoked once on the one configured logger by the
\* time the handler sleeps and by the time the response exists, and waking
\* from the delay invokes it no second time.
C27_LoggedOnceBeforeDelayAndResponse ==
    /\ [](/\ Handled => (logged.calls = 1 /\ Cardinality(logged.records) = 1)
          /\ \A d \in sleeping :
                /\ d.logged.calls = 1
                /\ \A rec \in d.logged.records : rec[2].time <= d.wake - 2)
    /\ [][ (rq = None /\ rq' # None /\ sleeping' # sleeping /\ response' # None) =>
              /\ \E d \in sleeping : sleeping' = sleeping \ {d} /\ logged' = d.logged
              /\ \A i \in 1..Len(listeners) :
                    listeners'[i].request_logger = listeners[i].request_logger
              /\ files' = files
              /\ \A rec \in logged'.records : rec[2].time + 2 <= now
         ]_vars

\* The request for the delayed response has its response, two ticks or more
\* after the one console record of it was written.
C27_Witness ==
    /\ Handled
    /\ selected = "slow"
    /\ response # None
    /\ Val(response).body = "late"
    /\ logged.calls = 1
    /\ \E rec \in logged.records : rec[1] = "console" /\ rec[2].time + 2 <= now

\* A request without route has been logged once and answered with the
\* default response.
C27_WitnessDefault ==
    /\ Handled
    /\ selected = "NoRoute"
    /\ response # None
    /\ logged.calls = 1
    /\ \E rec \in logged.records : rec[1] = "console"

(***************************************************************************)
(* Construction of the listener set (checked under Spec and SpecServe).    *)
(***************************************************************************)
\* C31: building the listeners from a configuration that passed validation
\* never fails: main never ends with the TypeError of an undefined server
\* identity, and once the set is built it has one listener per configured
\* server, also for a base_url that omits the port.
C31_ConstructNeverFails ==
    /\ exc # "TypeError"
    /\ (config # "None" /\ pc \in {"start_initial", "start", "RUNNING"}) =>
          Len(controller.processes) = Len(FileTree(config).servers)

\* C32: the rules wired into each server's listener are exactly those the
\* server's own requests_ids name, and its no-match response is the
\* server's own default response, for every server of the list, also when
\* two servers have the same identity.
C32_ListenerWiredFromOwnServer ==
    \A i \in 1..Len(listeners) :
        LET server == FileTree(config).servers[i]
        IN  /\ Range(listeners[i].route.server_requests) = Range(server.requests_ids)
            /\ listeners[i].default_response_id = server.default_response_id

====
